---- MODULE Spec2Model ----
(***************************************************************************)
(* Model of libs/hwui/jni/android_graphics_HardwareBufferRenderer.cpp:     *)
(* the JNI entry points of HardwareBufferRenderer (createRootNode,         *)
(* destroyRootNode, create, render, setLightGeometry, setLightAlpha,       *)
(* getFinalizer and the proxy destroy routine), the transform builder      *)
(* createMatrixFromBufferTransform and the callback wrapper                *)
(* createRenderCallback.                                                   *)
(*                                                                         *)
(* RenderProxy, RootRenderNode and the render thread are not part of the   *)
(* file; what the model needs of them (the proxy keeps the last stored     *)
(* parameters, a frame is drawn with the stored parameters, the proxy      *)
(* holds a strong reference on its root, a completion callback is          *)
(* dispatched once or resolved at destroy) follows the design document.    *)
(* SkMatrix operations follow Skia's definition for affine matrices.       *)
(***************************************************************************)
EXTENDS Integers, Sequences, FiniteSets, TLC

\* ------------------------------------------------------------------ bounds

MaxRoots == 1
MaxProxies == 2
\* render() calls in one run
MaxFrames == 2
\* width and height range over 0..MaxDim
MaxDim == 2
\* orientation values range over 0..MaxTransform
MaxTransform == 8
\* alpha inputs are the floats n / AlphaDen, n in -AlphaOver..AlphaDen+AlphaOver
AlphaDen == 4
AlphaOver == 4

RootIds == 1..MaxRoots
ProxyIds == 1..MaxProxies
FrameIds == 1..MaxFrames
Dims == 0..MaxDim
TransformValues == 0..MaxTransform
\* color space handles, and the status codes syncAndDrawFrame returns
ColorSpaces == {1, 2}
SyncResults == {0, 1}
AlphaInputs == (0 - AlphaOver)..(AlphaDen + AlphaOver)
LightInputs == {<<0, 0, 1, 100>>, <<1, 1, 2, 50>>}

\* ------------------------------------------------------- program constants

ANATIVEWINDOW_TRANSFORM_IDENTITY == 0
ANATIVEWINDOW_TRANSFORM_ROTATE_90 == 4
ANATIVEWINDOW_TRANSFORM_ROTATE_180 == 3
ANATIVEWINDOW_TRANSFORM_ROTATE_270 == 7
\* the factor of setLightAlpha and the number of values of a uint8_t
AlphaScale == 255
Uint8Values == 256

ValidTransforms ==
    { ANATIVEWINDOW_TRANSFORM_IDENTITY, ANATIVEWINDOW_TRANSFORM_ROTATE_90,
      ANATIVEWINDOW_TRANSFORM_ROTATE_180, ANATIVEWINDOW_TRANSFORM_ROTATE_270 }

\* ------------------------------------------------------------- SkMatrix
\* An affine SkMatrix: x' = sx*x + kx*y + tx, y' = ky*x + sy*y + ty.

SkMatrix == [sx |-> 1, kx |-> 0, tx |-> 0, ky |-> 0, sy |-> 1, ty |-> 0]

\* sine and cosine of a multiple of 90 degrees (Skia snaps them to 0, 1, -1)
Sin(deg) == CASE deg = 0 -> 0 [] deg = 90 -> 1 [] deg = 180 -> 0 [] deg = 270 -> -1
Cos(deg) == CASE deg = 0 -> 1 [] deg = 90 -> 0 [] deg = 180 -> -1 [] deg = 270 -> 0

\* SkMatrix::setRotate(deg): the matrix becomes the rotation about (0,0)
setRotate(deg) ==
    [sx |-> Cos(deg), kx |-> 0 - Sin(deg), tx |-> 0,
     ky |-> Sin(deg), sy |-> Cos(deg), ty |-> 0]

\* SkMatrix::postTranslate(dx, dy): M' = T(dx, dy) * M
postTranslate(m, dx, dy) == [m EXCEPT !.tx = m.tx + dx, !.ty = m.ty + dy]

\* SkMatrix::mapXY
mapXY(m, x, y) == <<m.sx * x + m.kx * y + m.tx, m.ky * x + m.sy * y + m.ty>>

\* createMatrixFromBufferTransform with the identity case listed before
\* the default label's fall-through point, so IDENTITY is also logged
createMatrixFromBufferTransform_logsIdentity(width, height, transform) ==
    CASE transform = ANATIVEWINDOW_TRANSFORM_ROTATE_90 ->
            [matrix |-> postTranslate(setRotate(90), width, 0), logs |-> 0]
      [] transform = ANATIVEWINDOW_TRANSFORM_ROTATE_180 ->
            [matrix |-> postTranslate(setRotate(180), width, height), logs |-> 0]
      [] transform = ANATIVEWINDOW_TRANSFORM_ROTATE_270 ->
            [matrix |-> postTranslate(setRotate(270), 0, width), logs |-> 0]
      [] OTHER -> [matrix |-> SkMatrix, logs |-> 1]

\* createMatrixFromBufferTransform translating ROTATE_90 along y instead of x
createMatrixFromBufferTransform_swapped(width, height, transform) ==
    CASE transform = ANATIVEWINDOW_TRANSFORM_ROTATE_90 ->
            [matrix |-> postTranslate(setRotate(90), 0, width), logs |-> 0]
      [] transform = ANATIVEWINDOW_TRANSFORM_ROTATE_180 ->
            [matrix |-> postTranslate(setRotate(180), width, height), logs |-> 0]
      [] transform = ANATIVEWINDOW_TRANSFORM_ROTATE_270 ->
            [matrix |-> postTranslate(setRotate(270), 0, width), logs |-> 0]
      [] transform = ANATIVEWINDOW_TRANSFORM_IDENTITY ->
            [matrix |-> SkMatrix, logs |-> 0]
      [] OTHER -> [matrix |-> SkMatrix, logs |-> 1]

\* The matrix returned and the number of ALOGE records emitted.
createMatrixFromBufferTransform(width, height, transform) ==
    CASE transform = ANATIVEWINDOW_TRANSFORM_ROTATE_90 ->
            [matrix |-> postTranslate(setRotate(90), width, 0), logs |-> 0]
      [] transform = ANATIVEWINDOW_TRANSFORM_ROTATE_180 ->
            [matrix |-> postTranslate(setRotate(180), width, height), logs |-> 0]
      [] transform = ANATIVEWINDOW_TRANSFORM_ROTATE_270 ->
            [matrix |-> postTranslate(setRotate(270), 0, width), logs |-> 0]
      [] transform = ANATIVEWINDOW_TRANSFORM_IDENTITY ->
            [matrix |-> SkMatrix, logs |-> 0]
      [] OTHER -> [matrix |-> SkMatrix, logs |-> 1]

\* ----------------------------------------------------------- alpha to uint8

\* C++ conversion of a float to an integer type truncates toward zero
TruncDiv(a, b) == IF a >= 0 THEN a \div b ELSE 0 - ((0 - a) \div b)

\* The results a build can produce for (uint8_t)(255 * (num / AlphaDen)): the
\* truncated product when a uint8_t can hold it; otherwise the conversion is
\* undefined, and a build either converts through a wider integer and keeps
\* the low 8 bits, or saturates.
alphaToUint8(num) ==
    LET t == TruncDiv(AlphaScale * num, AlphaDen)
    IN  IF t >= 0 /\ t < Uint8Values
        THEN {t}
        ELSE {t % Uint8Values, IF t < 0 THEN 0 ELSE Uint8Values - 1}

\* ------------------------------------------------------------------- state

VARIABLES
    roots,      \* RootIds -> the RootRenderNode behind each root handle
    proxies,    \* ProxyIds -> the RenderProxy behind each proxy handle
    frames,     \* one record per render() call: its consumer and callback
    logCount,   \* ALOGE records emitted so far
    finalizer,  \* the function address getFinalizer handed out, or "null"
    last,       \* the most recent JNI call: arguments, steps, return value
    halt        \* "run", or how the process left defined behaviour

vars == <<roots, proxies, frames, logCount, finalizer, last, halt>>

NoRoot == [state |-> "none", strong |-> 0, destroyed |-> FALSE]
NoParams == [matrix |-> SkMatrix, colorSpace |-> 0, callback |-> 0]
NoLight == <<0, 0, 0, 0>>
NoProxy == [state |-> "none", root |-> 0, params |-> NoParams,
            light |-> NoLight, ambient |-> 0, spot |-> 0, deletes |-> 0]
FreedProxy == [NoProxy EXCEPT !.state = "freed", !.deletes = 1]

Init ==
    /\ roots = [r \in RootIds |-> NoRoot]
    /\ proxies = [p \in ProxyIds |-> NoProxy]
    /\ frames = <<>>
    /\ logCount = 0
    /\ finalizer = "null"
    /\ last = [op |-> "none"]
    /\ halt = "run"

\* handles the caller holds
RootHandles == {r \in RootIds : roots[r].state # "none"}
LiveProxies == {p \in ProxyIds : proxies[p].state = "live"}
DestroyedProxies == {p \in ProxyIds : proxies[p].state = "freed"}

\* ------------------------------------------------------ reference counting

\* RefBase::incStrong
incStrong(node) == [node EXCEPT !.strong = @ + 1]

\* RefBase::decStrong: the object is deleted when its last strong reference goes
decStrong(node) ==
    [node EXCEPT !.strong = @ - 1, !.state = IF node.strong = 1 THEN "freed" ELSE @]

\* new RootRenderNode(...): a node no strong reference holds yet
newRootRenderNode == [state |-> "live", strong |-> 0, destroyed |-> FALSE]

\* createRootNode without the incStrong
rootNodeCreated_noIncStrong == newRootRenderNode

\* the node createRootNode returns the handle of: new, then incStrong(nullptr)
rootNodeCreated == incStrong(newRootRenderNode)

\* RootRenderNode::destroy(): a teardown request; the node itself stays
\* allocated while strong references remain
rootNodeDestroy(node) == [node EXCEPT !.destroyed = TRUE]

\* new RenderProxy(true, rootRenderNode, &factory): the proxy's context holds a
\* strong reference on the root
renderProxyCreated(rs, r) == [rs EXCEPT ![r] = incStrong(rs[r])]

\* ~RenderProxy: the context goes, and with it its reference on the root
renderProxyDeleted(rs, r) == [rs EXCEPT ![r] = decStrong(rs[r])]

\* ------------------------------------------------------ completion callback

\* createRenderCallback keeping the raw global reference, with no holder to
\* delete it when the closure goes
createRenderCallback_rawRef(consumer) ==
    IF ~consumer
    THEN [callback |-> FALSE, refs |-> 0, owned |-> FALSE]
    ELSE [callback |-> TRUE, refs |-> 1, owned |-> FALSE]

\* createRenderCallback without the null check
createRenderCallback_noNullCheck(consumer) ==
    [callback |-> TRUE, refs |-> 1, owned |-> TRUE]

\* callback: whether a closure (not nullptr) is returned; refs: the global
\* references NewGlobalRef created; owned: the reference sits in a
\* JGlobalRefHolder the closure shares, deleted with the closure
createRenderCallback(consumer) ==
    IF ~consumer
    THEN [callback |-> FALSE, refs |-> 0, owned |-> FALSE]
    ELSE [callback |-> TRUE, refs |-> 1, owned |-> TRUE]

\* the frame record of a render() call
newFrame(p, consumer, cb) ==
    [proxy |-> p, consumer |-> consumer,
     cb |-> IF cb.callback THEN "pending" ELSE "null",
     invoked |-> 0, refs |-> cb.refs, owned |-> cb.owned, released |-> 0]

\* the closure of a frame is destroyed: a held JGlobalRefHolder deletes its reference
closureDestroyed(fr) == [fr EXCEPT !.released = IF fr.owned THEN @ + 1 ELSE @]

\* the closure is called: CallStaticVoidMethod(invokeRenderCallback, consumer, fd, status)
closureInvoked(fr, how) == [fr EXCEPT !.cb = how, !.invoked = @ + 1]

\* the proxy goes while the callback is pending: the callback is fired with a
\* failure status or cancelled, and either way its closure is destroyed
pendingDropped(fr, how) ==
    closureDestroyed(IF how = "failed"
                     THEN closureInvoked(fr, "failed")
                     ELSE [fr EXCEPT !.cb = "cancelled"])

PendingOf(p) == {f \in 1..Len(frames) : frames[f].proxy = p /\ frames[f].cb = "pending"}

\* ------------------------------------------------------------- RenderProxy

\* RenderProxy::setHardwareBufferRenderParams: the proxy keeps the parameters
setHardwareBufferRenderParams(prox, p, params) == [prox EXCEPT ![p].params = params]

\* RenderProxy::syncAndDrawFrame: draws one frame with the stored parameters
\* and returns the status of the submission
syncAndDrawFrame(prox, p, syncResult) == [status |-> syncResult, used |-> prox[p].params]

\* render's two proxy calls in the opposite order
renderSteps_drawFirst(prox, p, params, syncResult) ==
    LET drawn == syncAndDrawFrame(prox, p, syncResult)
        stored == setHardwareBufferRenderParams(prox, p, params)
    IN  [proxies |-> stored,
         trace |-> <<[ev |-> "submit", params |-> drawn.used, status |-> drawn.status],
                     [ev |-> "store", params |-> params, status |-> 0]>>,
         ret |-> drawn.status]

\* proxy->setHardwareBufferRenderParams(...); return proxy->syncAndDrawFrame();
renderSteps(prox, p, params, syncResult) ==
    LET stored == setHardwareBufferRenderParams(prox, p, params)
        drawn == syncAndDrawFrame(stored, p, syncResult)
    IN  [proxies |-> stored,
         trace |-> <<[ev |-> "store", params |-> params, status |-> 0],
                     [ev |-> "submit", params |-> drawn.used, status |-> drawn.status]>>,
         ret |-> drawn.status]

\* GraphicsJNI::getNativeColorSpace: the native color space behind the handle
getNativeColorSpace(colorspacePtr) == colorspacePtr

\* ----------------------------------------------------------------- actions

android_graphics_HardwareBufferRenderer_createRootNode ==
    /\ halt = "run"
    /\ \E r \in RootIds :
        /\ roots[r].state = "none"
        /\ \A q \in RootIds : q < r => roots[q].state # "none"
        /\ roots' = [roots EXCEPT ![r] = rootNodeCreated]
        /\ last' = [op |-> "createRootNode", ret |-> r]
    /\ UNCHANGED <<proxies, frames, logCount, finalizer, halt>>

android_graphics_hardwareBufferRenderer_destroyRootNode(renderNodePtr) ==
    /\ halt = "run"
    /\ roots' = [roots EXCEPT ![renderNodePtr] = rootNodeDestroy(roots[renderNodePtr])]
    /\ last' = [op |-> "destroyRootNode", root |-> renderNodePtr]
    /\ UNCHANGED <<proxies, frames, logCount, finalizer, halt>>

android_graphics_HardwareBufferRenderer_create(renderNodePtr) ==
    /\ halt = "run"
    /\ \E p \in ProxyIds :
        /\ proxies[p].state = "none"
        /\ \A q \in ProxyIds : q < p => proxies[q].state # "none"
        /\ proxies' = [proxies EXCEPT ![p] =
                          [NoProxy EXCEPT !.state = "live", !.root = renderNodePtr]]
        /\ last' = [op |-> "create", root |-> renderNodePtr, ret |-> p]
    /\ roots' = renderProxyCreated(roots, renderNodePtr)
    /\ UNCHANGED <<frames, logCount, finalizer, halt>>

android_graphics_HardwareBufferRenderer_getFinalizer ==
    /\ halt = "run"
    /\ finalizer' = "HardwareBufferRenderer_destroy"
    /\ last' = [op |-> "getFinalizer", ret |-> "HardwareBufferRenderer_destroy"]
    /\ UNCHANGED <<roots, proxies, frames, logCount, halt>>

\* delete proxy. On a live proxy: the proxy goes, with its reference on the
\* root; a callback still pending is fired with a failure status or cancelled,
\* and its closure is destroyed. On a handle already destroyed the delete is
\* undefined: the allocator aborts the process, or the second free is executed.
HardwareBufferRenderer_destroy(renderProxy) ==
    /\ halt = "run"
    /\ finalizer = "HardwareBufferRenderer_destroy"
    /\ IF proxies[renderProxy].state = "live"
       THEN /\ proxies' = [proxies EXCEPT ![renderProxy] = FreedProxy]
            /\ roots' = renderProxyDeleted(roots, proxies[renderProxy].root)
            /\ \E how \in [PendingOf(renderProxy) -> {"failed", "cancelled"}] :
                 frames' = [f \in 1..Len(frames) |->
                     IF f \in PendingOf(renderProxy)
                     THEN pendingDropped(frames[f], how[f])
                     ELSE frames[f]]
            /\ last' = [op |-> "destroy", proxy |-> renderProxy, outcome |-> "returned"]
            /\ UNCHANGED halt
       ELSE /\ \E out \in {"fatal", "undefined"} :
                 /\ halt' = out
                 /\ proxies' = IF out = "undefined"
                               THEN [proxies EXCEPT ![renderProxy].deletes = @ + 1]
                               ELSE proxies
                 /\ last' = [op |-> "destroy", proxy |-> renderProxy,
                             outcome |-> IF out = "fatal" THEN "aborted" ELSE "returned"]
            /\ UNCHANGED <<roots, frames>>
    /\ UNCHANGED <<logCount, finalizer>>

\* render(): the matrix (and its log record), the callback (and its global
\* reference) are built first; then the proxy is dereferenced. On a live proxy
\* the parameters are stored and the frame is submitted. On a destroyed proxy
\* the dereference is undefined: the process aborts, or the call writes into
\* the freed object and returns a status as if nothing were wrong.
android_graphics_HardwareBufferRenderer_render(renderProxy, transform, width, height, colorspacePtr, consumer, syncResult) ==
    /\ halt = "run"
    /\ Len(frames) < MaxFrames
    /\ LET m == createMatrixFromBufferTransform(width, height, transform)
           cb == createRenderCallback(consumer)
           f == Len(frames) + 1
           params == [matrix |-> m.matrix,
                      colorSpace |-> getNativeColorSpace(colorspacePtr),
                      callback |-> IF cb.callback THEN f ELSE 0]
           steps == renderSteps(proxies, renderProxy, params, syncResult)
           call == [op |-> "render", proxy |-> renderProxy, transform |-> transform,
                    width |-> width, height |-> height, colorSpace |-> colorspacePtr,
                    consumer |-> consumer, matrix |-> m.matrix, logs |-> m.logs,
                    frame |-> f]
       IN  /\ logCount' = logCount + m.logs
           /\ frames' = Append(frames, newFrame(renderProxy, consumer, cb))
           /\ IF proxies[renderProxy].state = "live"
              THEN /\ proxies' = steps.proxies
                   /\ last' = [call EXCEPT !.op = "render"] @@
                              [trace |-> steps.trace, ret |-> steps.ret,
                               outcome |-> "returned"]
                   /\ UNCHANGED halt
              ELSE \E out \in {"fatal", "undefined"} :
                   /\ halt' = out
                   /\ proxies' = IF out = "undefined" THEN steps.proxies ELSE proxies
                   /\ last' = call @@
                              [trace |-> IF out = "undefined" THEN steps.trace ELSE <<>>,
                               ret |-> IF out = "undefined" THEN steps.ret ELSE 0,
                               outcome |-> IF out = "fatal" THEN "aborted" ELSE "returned"]
    /\ UNCHANGED <<roots, finalizer>>

android_graphics_HardwareBufferRenderer_setLightGeometry(renderProxyPtr, light) ==
    /\ halt = "run"
    /\ IF proxies[renderProxyPtr].state = "live"
       THEN /\ proxies' = [proxies EXCEPT ![renderProxyPtr].light = light]
            /\ last' = [op |-> "setLightGeometry", proxy |-> renderProxyPtr,
                        outcome |-> "returned"]
            /\ UNCHANGED halt
       ELSE \E out \in {"fatal", "undefined"} :
            /\ halt' = out
            /\ proxies' = IF out = "undefined"
                          THEN [proxies EXCEPT ![renderProxyPtr].light = light]
                          ELSE proxies
            /\ last' = [op |-> "setLightGeometry", proxy |-> renderProxyPtr,
                        outcome |-> IF out = "fatal" THEN "aborted" ELSE "returned"]
    /\ UNCHANGED <<roots, frames, logCount, finalizer>>

\* ambientShadowAlpha and spotShadowAlpha are the floats ambient / AlphaDen and
\* spot / AlphaDen
android_graphics_HardwareBufferRenderer_setLightAlpha(renderProxyPtr, ambient, spot) ==
    /\ halt = "run"
    /\ \E a \in alphaToUint8(ambient), s \in alphaToUint8(spot) :
        IF proxies[renderProxyPtr].state = "live"
        THEN /\ proxies' = [proxies EXCEPT ![renderProxyPtr].ambient = a,
                                           ![renderProxyPtr].spot = s]
             /\ last' = [op |-> "setLightAlpha", proxy |-> renderProxyPtr,
                         ambient |-> ambient, spot |-> spot, outcome |-> "returned"]
             /\ UNCHANGED halt
        ELSE \E out \in {"fatal", "undefined"} :
             /\ halt' = out
             /\ proxies' = IF out = "undefined"
                           THEN [proxies EXCEPT ![renderProxyPtr].ambient = a,
                                                ![renderProxyPtr].spot = s]
                           ELSE proxies
             /\ last' = [op |-> "setLightAlpha", proxy |-> renderProxyPtr,
                         ambient |-> ambient, spot |-> spot,
                         outcome |-> IF out = "fatal" THEN "aborted" ELSE "returned"]
    /\ UNCHANGED <<roots, frames, logCount, finalizer>>

\* The render thread signals the completion of frame f: its callback is
\* called once, in submission order, and the closure is dropped.
InvokeRenderCallback(f) ==
    /\ halt = "run"
    /\ f \in 1..Len(frames)
    /\ frames[f].cb = "pending"
    /\ \A g \in PendingOf(frames[f].proxy) : f <= g
    /\ frames' = [frames EXCEPT ![f] = closureDestroyed(closureInvoked(frames[f], "fired"))]
    /\ UNCHANGED <<roots, proxies, logCount, finalizer, last, halt>>

\* --------------------------------------------------------- specifications

\* The inputs of the lifecycle specifications: one call of each shape.
SomeTransforms == {ANATIVEWINDOW_TRANSFORM_IDENTITY, ANATIVEWINDOW_TRANSFORM_ROTATE_90}
SomeAlphas == {AlphaDen}
SomeLights == {<<0, 0, 1, 100>>}

\* The caller keeps the handle contract: a proxy handle is used while its
\* proxy is live.
Next ==
    \/ android_graphics_HardwareBufferRenderer_createRootNode
    \/ \E r \in RootHandles : android_graphics_hardwareBufferRenderer_destroyRootNode(r)
    \/ \E r \in RootHandles : android_graphics_HardwareBufferRenderer_create(r)
    \/ android_graphics_HardwareBufferRenderer_getFinalizer
    \/ \E p \in LiveProxies : HardwareBufferRenderer_destroy(p)
    \/ \E p \in LiveProxies, t \in SomeTransforms, cs \in ColorSpaces,
          consumer \in BOOLEAN, st \in SyncResults :
          android_graphics_HardwareBufferRenderer_render(p, t, MaxDim, MaxDim, cs,
                                                         consumer, st)
    \/ \E p \in LiveProxies, light \in SomeLights :
          android_graphics_HardwareBufferRenderer_setLightGeometry(p, light)
    \/ \E p \in LiveProxies, a \in SomeAlphas, s \in SomeAlphas :
          android_graphics_HardwareBufferRenderer_setLightAlpha(p, a, s)
    \/ \E f \in FrameIds : InvokeRenderCallback(f)

Spec == Init /\ [][Next]_vars

\* The lifecycle of roots, proxies and frames: the handlers that create,
\* destroy and submit. The light setters, which touch none of these, are left
\* to Spec.
LifecycleNext ==
    \/ android_graphics_HardwareBufferRenderer_createRootNode
    \/ \E r \in RootHandles : android_graphics_hardwareBufferRenderer_destroyRootNode(r)
    \/ \E r \in RootHandles : android_graphics_HardwareBufferRenderer_create(r)
    \/ android_graphics_HardwareBufferRenderer_getFinalizer
    \/ \E p \in LiveProxies : HardwareBufferRenderer_destroy(p)
    \/ \E p \in LiveProxies, consumer \in BOOLEAN, st \in SyncResults :
          android_graphics_HardwareBufferRenderer_render(p, ANATIVEWINDOW_TRANSFORM_ROTATE_90,
                                                         MaxDim, MaxDim, 1, consumer, st)
    \/ \E f \in FrameIds : InvokeRenderCallback(f)

LifecycleSpec == Init /\ [][LifecycleNext]_vars

\* The caller also uses handles of destroyed proxies.
UseAfterDestroy ==
    \/ \E p \in DestroyedProxies : HardwareBufferRenderer_destroy(p)
    \/ \E p \in DestroyedProxies, t \in SomeTransforms, cs \in ColorSpaces,
          consumer \in BOOLEAN, st \in SyncResults :
          android_graphics_HardwareBufferRenderer_render(p, t, MaxDim, MaxDim, cs,
                                                         consumer, st)
    \/ \E p \in DestroyedProxies, light \in SomeLights :
          android_graphics_HardwareBufferRenderer_setLightGeometry(p, light)
    \/ \E p \in DestroyedProxies, a \in SomeAlphas, s \in SomeAlphas :
          android_graphics_HardwareBufferRenderer_setLightAlpha(p, a, s)

MisuseNext == Next \/ UseAfterDestroy

MisuseSpec == Init /\ [][MisuseNext]_vars

\* The state after createRootNode and create: one root, one live proxy on it.
OneProxy ==
    /\ roots = [r \in RootIds |-> IF r = 1 THEN incStrong(rootNodeCreated) ELSE NoRoot]
    /\ proxies = [p \in ProxyIds |->
                    IF p = 1 THEN [NoProxy EXCEPT !.state = "live", !.root = 1]
                    ELSE NoProxy]
    /\ frames = <<>>
    /\ logCount = 0
    /\ finalizer = "null"
    /\ last = [op |-> "create", root |-> 1, ret |-> 1]
    /\ halt = "run"

\* The proxies of one root and their callbacks: proxies are created, frames
\* are submitted with and without a sink, completions are signalled, proxies
\* are destroyed.
CallbackNext ==
    \/ android_graphics_HardwareBufferRenderer_create(1)
    \/ android_graphics_HardwareBufferRenderer_getFinalizer
    \/ \E p \in LiveProxies : HardwareBufferRenderer_destroy(p)
    \/ \E p \in LiveProxies, consumer \in BOOLEAN, st \in SyncResults :
          android_graphics_HardwareBufferRenderer_render(p, ANATIVEWINDOW_TRANSFORM_ROTATE_90,
                                                         MaxDim, MaxDim, 1, consumer, st)
    \/ \E f \in FrameIds : InvokeRenderCallback(f)

CallbackSpec == OneProxy /\ [][CallbackNext]_vars

\* The render thread keeps running: a pending completion is signalled.
CallbackFairSpec == CallbackSpec /\ \A f \in FrameIds : WF_vars(InvokeRenderCallback(f))

\* render() with every orientation and size, and with every color space and
\* sink.
RenderNext ==
    \/ \E t \in TransformValues, w \in Dims, h \in Dims, st \in SyncResults :
          android_graphics_HardwareBufferRenderer_render(1, t, w, h, 1, FALSE, st)
    \/ \E t \in SomeTransforms, cs \in ColorSpaces, consumer \in BOOLEAN, st \in SyncResults :
          android_graphics_HardwareBufferRenderer_render(1, t, MaxDim, MaxDim, cs,
                                                         consumer, st)

RenderSpec == OneProxy /\ [][RenderNext]_vars

\* the alpha inputs within [0, 1]
UnitAlphas == 0..AlphaDen

\* setLightAlpha() with every pair of alpha inputs: both within [0, 1], or
\* one of them outside.
AlphaNext ==
    \/ \E a \in UnitAlphas, s \in UnitAlphas :
          android_graphics_HardwareBufferRenderer_setLightAlpha(1, a, s)
    \/ \E a \in AlphaInputs, s \in AlphaInputs :
          /\ a \notin UnitAlphas \/ s \notin UnitAlphas
          /\ android_graphics_HardwareBufferRenderer_setLightAlpha(1, a, s)

AlphaSpec == OneProxy /\ [][AlphaNext]_vars

\* ------------------------------------------------------------------ claims

\* the corners of the rectangle [0,w] x [0,h]
Corners(w, h) == {<<x, y>> : x \in {0, w}, y \in {0, h}}

\* the render() call recorded in last returned to its caller
Rendered == last.op = "render" /\ last.outcome = "returned"

\* C1: for a valid orientation and positive width and height, the matrix maps
\* the four corners of the logical content rectangle (height x width for
\* ROTATE_90 and ROTATE_270, width x height otherwise) onto the four corners
\* of the physical rectangle [0,width] x [0,height].
C1_CornersOntoPhysicalRect ==
    (Rendered /\ last.transform \in ValidTransforms /\ last.width > 0 /\ last.height > 0) =>
        LET turned == last.transform \in {ANATIVEWINDOW_TRANSFORM_ROTATE_90,
                                          ANATIVEWINDOW_TRANSFORM_ROTATE_270}
            lw == IF turned THEN last.height ELSE last.width
            lh == IF turned THEN last.width ELSE last.height
        IN  {mapXY(last.matrix, c[1], c[2]) : c \in Corners(lw, lh)}
                = Corners(last.width, last.height)

\* the points the matrices are compared on
Points == {<<x, y>> : x \in 0..MaxDim, y \in 0..MaxDim}

\* C2: the matrix is the identity for IDENTITY; for ROTATE_90 the rotation
\* (x,y) -> (-y,x) followed by the translation (+width, 0); for ROTATE_180 the
\* rotation (x,y) -> (-x,-y) followed by (+width, +height); for ROTATE_270
\* the rotation (x,y) -> (y,-x) followed by (0, +width); whatever the other
\* arguments of the call and the state of the proxy.
C2_MatrixPerOrientation ==
    (Rendered /\ last.transform \in ValidTransforms) =>
        \A c \in Points :
            mapXY(last.matrix, c[1], c[2]) =
                CASE last.transform = ANATIVEWINDOW_TRANSFORM_IDENTITY -> <<c[1], c[2]>>
                  [] last.transform = ANATIVEWINDOW_TRANSFORM_ROTATE_90 ->
                        <<(0 - c[2]) + last.width, c[1]>>
                  [] last.transform = ANATIVEWINDOW_TRANSFORM_ROTATE_180 ->
                        <<(0 - c[1]) + last.width, (0 - c[2]) + last.height>>
                  [] last.transform = ANATIVEWINDOW_TRANSFORM_ROTATE_270 ->
                        <<c[2], (0 - c[1]) + last.width>>

C2_Witness ==
    /\ Rendered
    /\ last.transform = ANATIVEWINDOW_TRANSFORM_ROTATE_270
    /\ last.width = 1
    /\ last.height = 2
    /\ mapXY(last.matrix, 2, 0) = <<0, 0 - 1>>

\* C3: a render() call with an orientation outside the four valid values
\* emits exactly one log record, uses the identity matrix, stores the
\* parameters, submits the frame and returns the status of the submit; a
\* call with one of the four valid values emits no log record.
C3_InvalidOrientationFallsBack ==
    [][ Len(frames') = Len(frames) + 1 =>
          IF last'.transform \in ValidTransforms
          THEN logCount' = logCount /\ last'.logs = 0
          ELSE /\ logCount' = logCount + 1
               /\ last'.logs = 1
               /\ last'.matrix = [sx |-> 1, kx |-> 0, tx |-> 0, ky |-> 0, sy |-> 1, ty |-> 0]
               /\ last'.outcome = "returned"
               /\ Len(last'.trace) = 2
               /\ last'.trace[1].ev = "store"
               /\ last'.trace[1].params.matrix = last'.matrix
               /\ last'.trace[2].ev = "submit"
               /\ last'.ret = last'.trace[2].status
               /\ proxies'[last'.proxy].params.matrix = last'.matrix ]_vars

C3_Witness ==
    /\ Rendered
    /\ last.transform = 1
    /\ last.logs = 1
    /\ logCount = 2
    /\ Len(last.trace) = 2
    /\ last.ret = 1

\* clamp(n / AlphaDen, 0, 1) * AlphaDen
Clamped(n) == IF n < 0 THEN 0 ELSE IF n > AlphaDen THEN AlphaDen ELSE n

\* v is 255 * clamp(n / AlphaDen, 0, 1) rounded to a nearest integer
IsRounded(v, n) ==
    /\ 2 * AlphaDen * v >= 2 * AlphaScale * Clamped(n) - AlphaDen
    /\ 2 * AlphaDen * v <= 2 * AlphaScale * Clamped(n) + AlphaDen

\* C4: setLightAlpha stores, for ambient and for spot, the 8-bit integer
\* round(clamp(value, 0, 1) * 255).
C4_AlphaRoundedAndClamped ==
    (last.op = "setLightAlpha" /\ last.outcome = "returned") =>
        /\ IsRounded(proxies[last.proxy].ambient, last.ambient)
        /\ IsRounded(proxies[last.proxy].spot, last.spot)

Frames == 1..Len(frames)

C6_DoubleDestroyCaught ==
    /\ \A p \in ProxyIds : proxies[p].deletes <= 1
    /\ (last.op = "destroy" /\ halt # "run") => halt = "fatal"

\* C7: render(), setLightGeometry() and setLightAlpha() on the handle of a
\* destroyed proxy end in a fatal error: nothing is stored into the destroyed
\* proxy, no frame is submitted, no status is returned.
C7_UseAfterDestroyFails ==
    (last.op \in {"render", "setLightGeometry", "setLightAlpha"}
        /\ proxies[last.proxy].state = "freed") =>
        /\ last.outcome = "aborted"
        /\ halt = "fatal"
        /\ proxies[last.proxy] = FreedProxy

RefHeld(f) == f \in Frames /\ frames[f].released < frames[f].refs

CallParams ==
    [matrix |->
        CASE last.transform = ANATIVEWINDOW_TRANSFORM_ROTATE_90 ->
                [sx |-> 0, kx |-> 0 - 1, tx |-> last.width, ky |-> 1, sy |-> 0, ty |-> 0]
          [] last.transform = ANATIVEWINDOW_TRANSFORM_ROTATE_180 ->
                [sx |-> 0 - 1, kx |-> 0, tx |-> last.width,
                 ky |-> 0, sy |-> 0 - 1, ty |-> last.height]
          [] last.transform = ANATIVEWINDOW_TRANSFORM_ROTATE_270 ->
                [sx |-> 0, kx |-> 1, tx |-> 0, ky |-> 0 - 1, sy |-> 0, ty |-> last.width]
          [] OTHER -> [sx |-> 1, kx |-> 0, tx |-> 0, ky |-> 0, sy |-> 1, ty |-> 0],
     colorSpace |-> last.colorSpace,
     callback |-> IF last.consumer THEN last.frame ELSE 0]

\* C10: a render() call on a live proxy stores the parameters built from its
\* own arguments, then submits one frame, which is drawn with these
\* parameters, and returns the status of that submit.
C10_StoreThenSubmit ==
    Rendered =>
        /\ last.trace = <<[ev |-> "store", params |-> CallParams, status |-> 0],
                          [ev |-> "submit", params |-> CallParams, status |-> last.ret]>>
        /\ proxies[last.proxy].params = CallParams

C10_Witness ==
    /\ Rendered
    /\ last.frame = 2
    /\ frames[1].proxy = last.proxy
    /\ frames[1].consumer
    /\ last.consumer
    /\ last.transform = ANATIVEWINDOW_TRANSFORM_ROTATE_90
    /\ last.ret = 1

====
